---- MODULE Spec2Model ----
(***************************************************************************)
(* ropenbci (src/src/lib.rs): the OpenBCI serial driver.                   *)
(*                                                                         *)
(* The model follows the code: OpenBCI::setup (the three-step handshake),  *)
(* OpenBCI::start (the acquisition thread: start command, then the loop    *)
(* of read / extend / scan / purge / pairing / send), Drop for OpenBCI,    *)
(* Packet::from_bytes, Reading::from_packets and i24toi32.  The serial     *)
(* device and the consumer of the channel are the environment.             *)
(***************************************************************************)
EXTENDS Integers, Sequences, FiniteSets, TLC

(***************************************************************************)
(* Bounds of the model.                                                    *)
(***************************************************************************)
\* Frames the device puts on the wire in one run.
MaxFrames == 4
\* Transport reads (loop iterations) of one run.
MaxReads == 3

(***************************************************************************)
(* Program constants.                                                      *)
(***************************************************************************)
FrameMarker == 160
FrameLen == 32
ChunkLen == 64


(***************************************************************************)
(* Byte strings of the protocol (ASCII codes).                             *)
(***************************************************************************)
\* 'v' 0x0A and 'C' 0x0A, with the substring each response must contain.
CmdReset == <<118, 10>>
CmdMode == <<67, 10>>
ExpectFirmware == <<70, 105, 114, 109, 119, 97, 114, 101, 58, 32, 118, 51, 46, 49, 46, 50>>
ExpectMode == <<49, 54, 36, 36, 36>>
ExpectChannels == <<67, 104, 97, 110, 110, 101, 108, 32, 115, 101, 116, 32, 102, 111, 114, 32, 49, 54, 36, 36, 36>>
\* The two commands in the opposite order.
commandsReversed == << <<CmdMode, ExpectMode>>, <<CmdReset, ExpectFirmware>> >>

\* The commands of the loop of lines 69-80, in order (lines 34-40).
commands == << <<CmdReset, ExpectFirmware>>, <<CmdMode, ExpectMode>> >>
\* '1'..'8', 'Q' 'W' 'E' 'R' 'T' 'Y' 'U' 'I'
channels == <<49, 50, 51, 52, 53, 54, 55, 56, 81, 87, 69, 82, 84, 89, 85, 73>>
\* '0' '6' '0' '1' '1' '0'
channel_settings == <<48, 54, 48, 49, 49, 48>>
CmdStart == <<98, 10>>
CmdStop == <<115, 10>>

\* Responses the device may give to a handshake command.
RespFirmware == <<79, 112, 101, 110, 66, 67, 73, 32, 86, 51, 32, 49, 54, 32, 99, 104, 97, 110, 110, 101, 108, 10, 70, 105, 114, 109, 119, 97, 114, 101, 58, 32, 118, 51, 46, 49, 46, 50, 10, 36, 36, 36>>
RespMode == <<100, 97, 105, 115, 121, 32, 97, 116, 116, 97, 99, 104, 101, 100, 49, 54, 36, 36, 36>>
RespChannels == <<67, 104, 97, 110, 110, 101, 108, 32, 115, 101, 116, 32, 102, 111, 114, 32, 49, 54, 36, 36, 36>>
RespFailure == <<70, 97, 105, 108, 117, 114, 101, 58, 32, 116, 111, 111, 32, 102, 101, 119, 32, 99, 104, 97, 114, 115, 36, 36, 36>>
\* What the device may answer to the k-th handshake command: its
\* confirmation, a failure message, or nothing.
Answers(k) == {<<RespFirmware, RespMode, RespChannels>>[k], RespFailure, <<>>}

\* str::contains
Contains(hay, needle) ==
    \E i \in 0..(Len(hay) - Len(needle)) : SubSeq(hay, i + 1, i + Len(needle)) = needle

\* A handshake that accepts any response.
ResponseAny(response, expect) == TRUE

\* The check on a handshake response (lines 77 and 100).
ResponseOk(response, expect) == Contains(response, expect)

\* One channel's block: 'x', the channel, the six settings, 'X'.
ChannelBlock(channel) == <<120, channel>> \o channel_settings \o <<88>>

RECURSIVE ChannelBlocks(_)
ChannelBlocks(k) ==
    IF k = 0 THEN <<>> ELSE ChannelBlocks(k - 1) \o ChannelBlock(channels[k])

\* The single buffer written for the channel settings.
channel_write == ChannelBlocks(Len(channels)) \o <<10>>

(***************************************************************************)
(* The codec and the decoders.                                             *)
(***************************************************************************)
\* The codec as two's complement: bit 23 extends the sign.
i24toi32SignExtended(bytes) ==
    LET result == bytes[1] * 65536 + bytes[2] * 256 + bytes[3]
    IN  IF result >= 8388608 THEN result - 16777216 ELSE result

\* i24toi32 past its length check: the three bytes are combined big-endian;
\* if bit 23 is set the result is minus the low 23 bits, otherwise the low
\* 24 bits.
i24toi32(bytes) ==
    LET result == bytes[1] * 65536 + bytes[2] * 256 + bytes[3]
    IN  IF result >= 8388608 THEN -(result % 8388608) ELSE result % 16777216

\* Packet::from_bytes.  bytes is 1-based here: bytes[k + 1] is the code's
\* bytes[k].
from_bytes(bytes) ==
    [header |-> bytes[1],
     sample_number |-> bytes[2],
     chan_1 |-> i24toi32(SubSeq(bytes, 3, 5)),
     chan_2 |-> i24toi32(SubSeq(bytes, 6, 8)),
     chan_3 |-> i24toi32(SubSeq(bytes, 9, 11)),
     chan_4 |-> i24toi32(SubSeq(bytes, 12, 14)),
     chan_5 |-> i24toi32(SubSeq(bytes, 15, 17)),
     chan_6 |-> i24toi32(SubSeq(bytes, 18, 20)),
     chan_7 |-> i24toi32(SubSeq(bytes, 21, 23)),
     chan_8 |-> i24toi32(SubSeq(bytes, 24, 26)),
     acc_x |-> bytes[27] + bytes[28] * 256,
     acc_y |-> bytes[29] + bytes[30] * 256,
     acc_z |-> bytes[31] + bytes[32] * 256]

\* Reading::from_packets.
from_packets(p) ==
    [sample_numbers |-> <<p[1].sample_number, p[2].sample_number>>,
     chan_1 |-> p[1].chan_1, chan_2 |-> p[1].chan_2,
     chan_3 |-> p[1].chan_3, chan_4 |-> p[1].chan_4,
     chan_5 |-> p[1].chan_5, chan_6 |-> p[1].chan_6,
     chan_7 |-> p[1].chan_7, chan_8 |-> p[1].chan_8,
     chan_9 |-> p[2].chan_1, chan_10 |-> p[2].chan_2,
     chan_11 |-> p[2].chan_3, chan_12 |-> p[2].chan_4,
     chan_13 |-> p[2].chan_5, chan_14 |-> p[2].chan_6,
     chan_15 |-> p[2].chan_7, chan_16 |-> p[2].chan_8,
     acc_x |-> p[2].acc_x, acc_y |-> p[2].acc_y, acc_z |-> p[2].acc_z]

(***************************************************************************)
(* The state.                                                              *)
(***************************************************************************)
VARIABLES
    caller,         \* the owner of the OpenBCI value: "main", "panicked", "started", "released"
    setup_i,        \* handshake steps of setup() completed (0..3)
    port_log,       \* what the transport saw: writes, and the handshake's reads
    shutdown,       \* OpenBCI.shutdown
    thread,         \* the acquisition thread: "none", "spawned", "top", "pair", or how
                    \* it ended: "exited", "write_failed", "read_failed", "send_failed"
    wire,           \* bytes the device has sent and no read has returned yet
    wire_phase,     \* offset of wire[1] inside its device frame (history)
    sent,           \* frames the device has sent (history, bounded)
    reads,          \* transport reads of the loop so far
    temp_buffer,    \* the loop's temp_buffer after the last read
    nread,          \* what the last read returned
    buffer,         \* the accumulation buffer
    sof,            \* indices of buffer where a device frame starts (history)
    packet_buffer,  \* decoded packets not yet paired
    packets,        \* the two pairing slots, each <<>> (None) or <<p>> (Some(p))
    chan,           \* the delivery channel: Readings sent and not yet received
    rx,             \* the Receiver: "open", or "dropped" once a send has found it gone
    received,       \* Readings the consumer has received, in order (history)
    decoded,        \* every packet decoded so far, in order (history)
    emitted,        \* every Reading handed to send(), in order (history)
    drained,        \* bytes purged from the front of buffer so far (history)
    extracted,      \* where the last pass that extracted any frame extracted them:
                    \* positions (0-based) in the stream of all appended bytes (history)
    slice,          \* the argument of a call of i24toi32 on its own
    converted       \* what that call gave: None before it, Some(value), or Panic

vars == <<caller, setup_i, port_log, shutdown, thread, wire, wire_phase, sent,
          reads, temp_buffer, nread, buffer, sof, packet_buffer, packets,
          chan, rx, received, decoded, emitted, drained, extracted, slice,
          converted>>

codecVars == <<slice, converted>>

threadVars == <<thread, wire, wire_phase, sent, reads, temp_buffer, nread,
                buffer, sof, packet_buffer, packets, chan, rx, received,
                decoded, emitted, drained, extracted>>

None == <<>>
Some(p) == <<p>>
Zeros(k) == [i \in 1..k |-> 0]
Write(data) == [op |-> "write", data |-> data]
ReadToString(data) == [op |-> "read", data |-> data]

\* The state after OpenBCI::new, before any call.
Constructed ==
    /\ caller = "main"
    /\ setup_i = 0
    /\ port_log = <<>>
    /\ shutdown = FALSE
    /\ thread = "none"
    /\ wire = <<>>
    /\ wire_phase = 0
    /\ sent = 0
    /\ reads = 0
    /\ temp_buffer = Zeros(ChunkLen)
    /\ nread = 0
    /\ buffer = <<>>
    /\ sof = {}
    /\ packet_buffer = <<>>
    /\ packets = <<None, None>>
    /\ chan = <<>>
    /\ rx = "open"
    /\ received = <<>>
    /\ decoded = <<>>
    /\ emitted = <<>>
    /\ drained = 0
    /\ extracted = <<>>

Init ==
    /\ Constructed
    /\ slice = <<>>
    /\ converted = None

(***************************************************************************)
(* OpenBCI::setup.                                                         *)
(***************************************************************************)
\* One step of the handshake: write the command, read the response, require
\* the expected substring.  A failed write or read, or a response without
\* the substring, panics.
Handshake(command, expect, answers) ==
    \/ \* write_all fails
       /\ caller' = "panicked"
       /\ UNCHANGED <<setup_i, port_log>>
    \/ \* read_to_string fails
       /\ caller' = "panicked"
       /\ port_log' = Append(port_log, Write(command))
       /\ UNCHANGED setup_i
    \/ \E response \in answers :
          /\ port_log' = port_log \o <<Write(command), ReadToString(response)>>
          /\ IF ResponseOk(response, expect)
                THEN setup_i' = setup_i + 1 /\ UNCHANGED caller
                ELSE caller' = "panicked" /\ UNCHANGED setup_i

\* The loop over commands (lines 69-80), one iteration.
SetupCommand ==
    /\ caller = "main"
    /\ setup_i \in {0, 1}
    /\ Handshake(commands[setup_i + 1][1], commands[setup_i + 1][2],
                 Answers(setup_i + 1))
    /\ UNCHANGED <<shutdown, threadVars, codecVars>>

\* The channel settings (lines 82-102).
SetupChannels ==
    /\ caller = "main"
    /\ setup_i = 2
    /\ Handshake(channel_write, ExpectChannels, Answers(3))
    /\ UNCHANGED <<shutdown, threadVars, codecVars>>

(***************************************************************************)
(* OpenBCI::start: the acquisition thread.                                 *)
(***************************************************************************)
\* start(mut self) moves the OpenBCI value into the thread it spawns.
Start ==
    /\ caller = "main"
    /\ setup_i \in {0, 3}
    /\ thread = "none"
    /\ caller' = "started"
    /\ thread' = "spawned"
    /\ UNCHANGED <<setup_i, port_log, shutdown, wire, wire_phase, sent, reads,
                   temp_buffer, nread, buffer, sof, packet_buffer, packets,
                   chan, rx, received, decoded, emitted>>
    /\ UNCHANGED <<drained, extracted, codecVars>>

\* The thread's closure owns the OpenBCI value: when the closure ends, by
\* the break or by a panic's unwinding, the value is dropped and Drop::drop
\* runs (line 179).  shutdown after a step that leaves the thread at pc.
Ended == {"exited", "write_failed", "read_failed", "send_failed"}
Dropped(pc) == IF pc \in Ended THEN TRUE ELSE shutdown

\* The thread's first statement: the start-streaming command (lines 109-114).
StartStreaming ==
    /\ thread = "spawned"
    /\ \E ok \in BOOLEAN :
          IF ok
            THEN /\ port_log' = Append(port_log, Write(CmdStart))
                 /\ thread' = "top"
            ELSE /\ thread' = "write_failed"
                 /\ UNCHANGED port_log
    /\ shutdown' = Dropped(thread')
    /\ UNCHANGED <<caller, setup_i, wire, wire_phase, sent, reads,
                   temp_buffer, nread, buffer, sof, packet_buffer, packets,
                   chan, rx, received, decoded, emitted>>
    /\ UNCHANGED <<drained, extracted, codecVars>>

\* The condition of line 133 (index is 0-based, as in the code).
FrameFits(index, len) == index + FrameLen < len

\* The scan of lines 130-139.  The for loop visits the indices in ascending
\* order and never changes the buffer, so the frames it extracts are those
\* at the indices satisfying line 133, in ascending order, and purge_index
\* ends as the last such index plus 32 (0 when there is none).
Hits(buf) ==
    {index \in 0..(Len(buf) - 1) :
        buf[index + 1] = FrameMarker /\ FrameFits(index, Len(buf))}

Ascending(S) ==
    [k \in 1..Cardinality(S) |->
        CHOOSE x \in S : Cardinality({y \in S : y < x}) = k - 1]

ScanAll(buf) ==
    LET frames == Ascending(Hits(buf))
    IN  [frames |-> frames,
         purge_index |-> IF frames = <<>> THEN 0
                         ELSE frames[Len(frames)] + FrameLen]

\* A purge that stops at the start of the last extracted frame.
DrainToFrameStart(buf, purge_index) ==
    IF purge_index > 0 THEN SubSeq(buf, purge_index - FrameLen + 1, Len(buf)) ELSE buf

\* buffer.drain(0..purge_index), under the test of line 141.
Drain(buf, purge_index) ==
    IF purge_index > 0 THEN SubSeq(buf, purge_index + 1, Len(buf)) ELSE buf

\* What port.read returns: the bytes that have arrived, at most the 64 that
\* temp_buffer holds; none when nothing arrived before the timeout.
Available(w) == IF Len(w) < ChunkLen THEN Len(w) ELSE ChunkLen

\* temp_buffer after a read that returned data: the rest stays zero.
ReadInto(data) == data \o Zeros(ChunkLen - Len(data))

\* buffer.extend(&temp_buffer): the whole array is appended (line 128).
Extend(buf, temp) == buf \o temp

\* A decoded packet with its history fields: its place in the order of
\* decoding, and whether it was extracted at the start of a device frame.
Tag(p, id, genuine) == p @@ [id |-> id, genuine |-> genuine]

\* The top of the loop to the end of the purge (lines 116-143).  The stop
\* branch is the code's; whether shutdown can be true here is for the
\* properties to say.
LoopTop ==
    /\ thread = "top"
    /\ IF shutdown
         THEN /\ \E ok \in BOOLEAN :
                    IF ok
                      THEN /\ port_log' = Append(port_log, Write(CmdStop))
                           /\ thread' = "exited"
                      ELSE /\ thread' = "write_failed"
                           /\ UNCHANGED port_log
              /\ UNCHANGED <<wire, wire_phase, reads, temp_buffer, nread, buffer,
                             sof, packet_buffer, decoded, drained, extracted>>
         ELSE /\ reads < MaxReads
              /\ reads' = reads + 1
              /\ UNCHANGED port_log
              /\ \/ \* read fails
                    /\ thread' = "read_failed"
                    /\ UNCHANGED <<wire, wire_phase, temp_buffer, nread, buffer,
                                   sof, packet_buffer, decoded, drained, extracted>>
                 \/ \* read returns what the device has sent, up to 64 bytes
                    LET n == Available(wire)
                    IN
                      /\ LET temp == ReadInto(SubSeq(wire, 1, n))
                             buf == Extend(buffer, temp)
                             starts == sof \cup {Len(buffer) + i : i \in
                                        {j \in 1..n : (wire_phase + j - 1) % FrameLen = 0}}
                             sc == ScanAll(buf)
                             new == [k \in 1..Len(sc.frames) |->
                                      Tag(from_bytes(SubSeq(buf, sc.frames[k] + 1,
                                                            sc.frames[k] + FrameLen)),
                                          Len(decoded) + k,
                                          (sc.frames[k] + 1) \in starts)]
                         IN  /\ wire' = SubSeq(wire, n + 1, Len(wire))
                             /\ wire_phase' = (wire_phase + n) % FrameLen
                             /\ temp_buffer' = temp
                             /\ nread' = n
                             /\ buffer' = Drain(buf, sc.purge_index)
                             /\ drained' = drained + (Len(buf) - Len(buffer'))
                             /\ extracted' = IF sc.frames = <<>> THEN extracted
                                              ELSE [k \in 1..Len(sc.frames) |->
                                                      drained + sc.frames[k]]
                             /\ sof' = {i - sc.purge_index : i \in
                                          {j \in starts : j > sc.purge_index}}
                             /\ packet_buffer' = packet_buffer \o new
                             /\ decoded' = decoded \o new
                             /\ thread' = "pair"
    /\ shutdown' = Dropped(thread')
    /\ UNCHANGED <<caller, setup_i, sent, packets, chan, rx, received, emitted>>
    /\ UNCHANGED codecVars

\* Store with the parity tests exchanged.
StoreSwapped(packet, slots) ==
    IF packet.sample_number % 2 = 1 /\ slots[1] = None THEN slots
    ELSE IF packet.sample_number % 2 = 0 /\ slots[1] = None
      THEN [slots EXCEPT ![1] = Some(packet)]
    ELSE IF packet.sample_number % 2 = 1 /\ slots[2] = None
      THEN [slots EXCEPT ![2] = Some(packet)]
    ELSE slots

\* Store where an odd packet always takes slot 0, replacing what it holds.
StoreNewestOdd(packet, slots) ==
    IF packet.sample_number % 2 = 0 /\ slots[1] = None THEN slots
    ELSE IF packet.sample_number % 2 = 1
      THEN [slots EXCEPT ![1] = Some(packet)]
    ELSE IF packet.sample_number % 2 = 0 /\ slots[2] = None
      THEN [slots EXCEPT ![2] = Some(packet)]
    ELSE slots

\* The branches of lines 152-158: the slots after the packet is applied.
\* (The first branch's continue skips the test of line 160, which is false
\* there: slot 0 is empty.)
Store(packet, slots) ==
    IF packet.sample_number % 2 = 0 /\ slots[1] = None THEN slots
    ELSE IF packet.sample_number % 2 = 1 /\ slots[1] = None
      THEN [slots EXCEPT ![1] = Some(packet)]
    ELSE IF packet.sample_number % 2 = 0 /\ slots[2] = None
      THEN [slots EXCEPT ![2] = Some(packet)]
    ELSE slots

\* A while loop that runs until the packet buffer is empty.
MorePacketsAny(pb) == Len(pb) >= 1

\* The condition of the while loop (line 145).
MorePackets(pb) == Len(pb) >= 2

\* A channel that hands over the newest Reading first.
SendFront(ch, reading) == <<reading>> \o ch

\* sender.send on the unbounded FIFO channel.
Send(ch, reading) == Append(ch, reading)

\* A synthesis that takes the even packet only and leaves slot 0 as it is.
TakeEven(slots) == <<slots[1], None>>

\* packets[0].take() and packets[1].take() (line 161): both slots are
\* left None.
Take(slots) == <<None, None>>

\* One pass of the while loop's body (lines 146-167).
PairStep ==
    /\ thread = "pair"
    /\ MorePackets(packet_buffer)
    /\ LET packet == packet_buffer[1]
           slots == Store(packet, packets)
       IN  /\ packet_buffer' = Tail(packet_buffer)
           /\ IF slots[1] # None /\ slots[2] # None
                THEN LET pair == <<slots[1][1], slots[2][1]>>
                         reading == from_packets(pair)
                     IN  /\ packets' = Take(slots)
                         /\ emitted' = Append(emitted,
                                [reading |-> reading, odd |-> pair[1].id,
                                 even |-> pair[2].id,
                                 genuine |-> pair[1].genuine /\ pair[2].genuine,
                                 iter |-> reads])
                         /\ \/ \* the Receiver is alive: send succeeds
                               /\ rx = "open"
                               /\ chan' = Send(chan, reading)
                               /\ UNCHANGED <<thread, rx>>
                            \/ \* the consumer has dropped it: send fails
                               /\ rx' = "dropped"
                               /\ thread' = "send_failed"
                               /\ UNCHANGED chan
                ELSE /\ packets' = slots
                     /\ UNCHANGED <<emitted, chan, thread, rx>>
    /\ shutdown' = Dropped(thread')
    /\ UNCHANGED <<caller, setup_i, port_log, wire, wire_phase, sent,
                   reads, temp_buffer, nread, buffer, sof, received, decoded>>
    /\ UNCHANGED <<drained, extracted, codecVars>>

\* The while loop ends; the loop goes back to its top.
PairDone ==
    /\ thread = "pair"
    /\ ~MorePackets(packet_buffer)
    /\ thread' = "top"
    /\ UNCHANGED <<caller, setup_i, port_log, shutdown, wire, wire_phase, sent,
                   reads, temp_buffer, nread, buffer, sof, packet_buffer, packets,
                   chan, rx, received, decoded, emitted>>
    /\ UNCHANGED <<drained, extracted, codecVars>>

(***************************************************************************)
(* Drop for OpenBCI while the caller owns the value: the caller lets go of *)
(* it without starting, or unwinds from a panic in setup.  (Once start has *)
(* moved the value into the thread, see Dropped.)                          *)
(***************************************************************************)
\* Drop for a value the thread shares with the caller, who lets go of it
\* at any time.
DropShared ==
    /\ ~shutdown
    /\ \/ caller \in {"main", "started"} /\ setup_i \in {0, 3} /\ caller' = "released"
       \/ caller = "panicked" /\ UNCHANGED caller
    /\ shutdown' = TRUE
    /\ UNCHANGED <<setup_i, port_log, threadVars, codecVars>>

Drop ==
    /\ ~shutdown
    /\ \/ caller = "main" /\ setup_i \in {0, 3} /\ caller' = "released"
       \/ caller = "panicked" /\ UNCHANGED caller
    /\ shutdown' = TRUE
    /\ UNCHANGED <<setup_i, port_log, threadVars, codecVars>>

(***************************************************************************)
(* The environment: the device, once streaming, and the consumer.          *)
(***************************************************************************)
\* A device frame: the marker, the sample number, 24 bytes of channel data
\* and 6 of accelerometer data.  A marked frame carries the marker value in
\* its channel data (0-based offset 5), followed by the byte 2.
Frame(sn, marked) ==
    [k \in 1..FrameLen |->
        IF k = 1 THEN FrameMarker
        ELSE IF k = 2 THEN sn
        ELSE IF marked /\ k = 6 THEN FrameMarker
        ELSE IF marked /\ k = 7 THEN 2
        ELSE (sn * 16 + k - 1) % 256]

\* The frames the device sends (inputs of the model).
DeviceFrames == {Frame(0, FALSE), Frame(1, FALSE), Frame(1, TRUE), Frame(255, FALSE)}

\* The device sends a whole frame while the loop is about to read.  A read
\* returns at most 64 bytes, so a third pending frame would change no read:
\* the device is held to two, and sends nothing no read will take.
DeviceSend ==
    /\ thread = "top"
    /\ sent < MaxFrames
    /\ reads < MaxReads
    /\ Len(wire) + FrameLen <= ChunkLen
    /\ \E f \in DeviceFrames : wire' = wire \o f
    /\ sent' = sent + 1
    /\ UNCHANGED <<caller, setup_i, port_log, shutdown, thread, wire_phase, reads,
                   temp_buffer, nread, buffer, sof, packet_buffer, packets, chan,
                   rx, received, decoded, emitted>>
    /\ UNCHANGED <<drained, extracted, codecVars>>

\* Receiver::recv.
Recv ==
    /\ rx = "open"
    /\ chan # <<>>
    /\ received' = Append(received, Head(chan))
    /\ chan' = Tail(chan)
    /\ UNCHANGED <<caller, setup_i, port_log, shutdown, thread, wire, wire_phase,
                   sent, reads, temp_buffer, nread, buffer, sof, packet_buffer,
                   packets, rx, decoded, emitted>>
    /\ UNCHANGED <<drained, extracted, codecVars>>

Next ==
    \/ SetupCommand
    \/ SetupChannels
    \/ Start
    \/ StartStreaming
    \/ LoopTop
    \/ PairStep
    \/ PairDone
    \/ Drop
    \/ DeviceSend
    \/ Recv

Spec == Init /\ [][Next]_vars

(***************************************************************************)
(* i24toi32 called on its own, as the unit tests call it.                  *)
(***************************************************************************)
\* Byte values of the inputs: those of the tests' arrays, and the extremes.
CodecBytes == {0, 1, 7, 127, 128, 134, 135, 158, 255}

\* The inputs: every 3-byte slice over CodecBytes, and slices of a length
\* the function rejects.
Slices == [1..3 -> CodecBytes] \cup [1..2 -> {0, 255}] \cup [1..4 -> {0, 255}]

\* The outcome of a call that panicked.
Panic == <<"panic">>

CodecInit ==
    /\ Constructed
    /\ slice \in Slices
    /\ converted = None

\* The call: the length check of lines 273-275, then the conversion.
Convert ==
    /\ converted = None
    /\ converted' = IF Len(slice) # 3 THEN Panic ELSE Some(i24toi32(slice))
    /\ UNCHANGED <<caller, setup_i, port_log, shutdown, threadVars, slice>>

CodecNext == Convert

CodecSpec == CodecInit /\ [][CodecNext]_vars

(***************************************************************************)
(* Properties.                                                             *)
(***************************************************************************)
Odd(p) == p.sample_number % 2 = 1
Even(p) == p.sample_number % 2 = 0

\* The Reading the data model prescribes for an (odd, even) pair.
PairReading(o, e) ==
    [sample_numbers |-> <<o.sample_number, e.sample_number>>,
     chan_1 |-> o.chan_1, chan_2 |-> o.chan_2, chan_3 |-> o.chan_3,
     chan_4 |-> o.chan_4, chan_5 |-> o.chan_5, chan_6 |-> o.chan_6,
     chan_7 |-> o.chan_7, chan_8 |-> o.chan_8,
     chan_9 |-> e.chan_1, chan_10 |-> e.chan_2, chan_11 |-> e.chan_3,
     chan_12 |-> e.chan_4, chan_13 |-> e.chan_5, chan_14 |-> e.chan_6,
     chan_15 |-> e.chan_7, chan_16 |-> e.chan_8,
     acc_x |-> e.acc_x, acc_y |-> e.acc_y, acc_z |-> e.acc_z]

\* The Readings on their way to the consumer or with it, oldest first.
Delivered == received \o chan

\* C1: once exactly the packets [P1, P2], P1 odd and P2 even, have been
\* decoded and the pairing loop has run, exactly one Reading has been
\* emitted: sample_numbers (P1, P2), channels 1-8 from P1, channels 9-16
\* and the accelerometer values from P2.
C1_OddEvenYieldsOneReading ==
    (/\ thread = "top"
     /\ Len(decoded) = 2
     /\ Odd(decoded[1])
     /\ Even(decoded[2]))
    => /\ Len(emitted) = 1
       /\ emitted[1].reading = PairReading(decoded[1], decoded[2])

\* C2: once exactly the packets [E1, O, E2] (even, odd, even) have been
\* decoded and the pairing loop has run, exactly one Reading has been
\* emitted, built from O and E2, and E1 is in neither slot.
C2_LeadingEvenDiscarded ==
    (/\ thread = "top"
     /\ Len(decoded) = 3
     /\ Even(decoded[1])
     /\ Odd(decoded[2])
     /\ Even(decoded[3]))
    => /\ Len(emitted) = 1
       /\ emitted[1].odd = 2
       /\ emitted[1].even = 3
       /\ emitted[1].reading = PairReading(decoded[2], decoded[3])
       /\ \A k \in 1..2 : packets[k] = None \/ packets[k][1].id # 1

\* C3: every emitted Reading is built from a consecutive pair: an odd
\* packet and the even packet decoded right after it, whose sample number
\* is the odd one's plus one modulo 256.
C3_ConsecutivePair ==
    \A i \in 1..Len(emitted) :
        /\ Odd(decoded[emitted[i].odd])
        /\ Even(decoded[emitted[i].even])
        /\ emitted[i].even = emitted[i].odd + 1
        /\ decoded[emitted[i].even].sample_number
             = (decoded[emitted[i].odd].sample_number + 1) % 256

C5_DeliveryOrder ==
    /\ Len(Delivered) <= Len(emitted)
    /\ rx = "open" => Len(Delivered) = Len(emitted)
    /\ \A i \in 1..Len(Delivered) : Delivered[i] = emitted[i].reading
    /\ \A i, j \in 1..Len(emitted) : i < j => emitted[i].odd < emitted[j].odd

\* Two Readings emitted in one loop iteration have both reached the
\* consumer, and they differ.
C5_Witness ==
    /\ Len(received) >= 2
    /\ \E i \in 1..(Len(emitted) - 1) :
          /\ i + 1 <= Len(received)
          /\ emitted[i].iter = emitted[i + 1].iter
          /\ emitted[i].reading # emitted[i + 1].reading

\* The buffer holds whole, non-overlapping frames, each starting with the
\* marker, and the marker nowhere else.
Markers(buf) == {i \in 1..Len(buf) : buf[i] = FrameMarker}

WellFramed(buf) ==
    /\ \A i \in Markers(buf) : i + FrameLen - 1 <= Len(buf)
    /\ \A i, j \in Markers(buf) : i < j => i + FrameLen <= j

LastMarker(buf) == CHOOSE i \in Markers(buf) : \A j \in Markers(buf) : j <= i

\* A step of the loop from its top through the read, the scan and the purge.
ScanPass == thread = "top" /\ thread' = "pair"

\* C6: a scan pass over a buffer of k whole non-overlapping frames and no
\* other marker byte extracts exactly k frames and leaves the bytes after
\* the last frame.
C6_ScanExtractsEveryFrame ==
    [][(ScanPass /\ WellFramed(Extend(buffer, temp_buffer')))
        => LET buf == Extend(buffer, temp_buffer')
               k == Cardinality(Markers(buf))
           IN  /\ Len(packet_buffer') = Len(packet_buffer) + k
               /\ buffer' = IF k = 0 THEN buf
                             ELSE SubSeq(buf, LastMarker(buf) + FrameLen, Len(buf))]_vars

\* The handshake's reads, in order, and the substring each must contain.
HandshakeReads == SelectSeq(port_log, LAMBDA e : e.op = "read")
Expected == <<ExpectFirmware, ExpectMode, ExpectChannels>>
Lacking(k) == ~Contains(HandshakeReads[k].data, Expected[k])
Written(command) == \E i \in 1..Len(port_log) : port_log[i] = Write(command)

\* C7: when a handshake response lacks its expected substring, nothing is
\* written to the transport after it: no later handshake command, and
\* never the start-streaming command; the acquisition thread never starts.
C7_SetupFailureNeverStarts ==
    \A k \in 1..Len(HandshakeReads) :
        Lacking(k) => /\ Len(port_log) = 2 * k
                      /\ port_log[2 * k].op = "read"
                      /\ ~Written(CmdStart)
                      /\ thread = "none"

\* The second response lacked its substring, setup has panicked and the
\* value has since been dropped.
C7_Witness ==
    /\ Len(HandshakeReads) = 2
    /\ Lacking(2)
    /\ caller = "panicked"
    /\ shutdown

\* Number of times the stop-streaming command was written.
StopsWritten == Len(SelectSeq(port_log, LAMBDA e : e = Write(CmdStop)))

C9_SpuriousFrameDiscarded ==
    \A i \in 1..Len(Delivered) : emitted[i].genuine

\* buf ends with tail.
IsSuffix(tail, buf) ==
    /\ Len(tail) <= Len(buf)
    /\ tail = SubSeq(buf, Len(buf) - Len(tail) + 1, Len(buf))

\* C10: a read appends to the buffer the nread bytes it returned and
\* nothing else (the purge then cuts a prefix); after a read of zero bytes
\* the buffer is unchanged, no frame is extracted and no Reading is emitted
\* in that iteration.
C10_ReadAppendsReturnedBytes ==
    [][/\ ScanPass
          => /\ IsSuffix(buffer', buffer \o SubSeq(temp_buffer', 1, nread'))
             /\ nread' = 0 => /\ buffer' = buffer
                              /\ packet_buffer' = packet_buffer
       /\ (reads > 0 /\ nread = 0)
          => \A i \in 1..Len(emitted) : emitted[i].iter # reads]_vars

(***************************************************************************)
(* The codec (specification CodecSpec).                                    *)
(***************************************************************************)
\* The 24-bit value of a 3-byte big-endian slice, and its bit 23.
Value24(b) == b[1] * 65536 + b[2] * 256 + b[3]
SignBit(b) == b[1] \div 128

\* What the unit tests assert.
TestVectors ==
    {<< <<7, 134, 158>>, 493214 >>, << <<135, 134, 158>>, -493214 >>,
     << <<127, 255, 255>>, 8388607 >>, << <<255, 255, 255>>, -8388607 >>,
     << <<0, 0, 1>>, 1 >>, << <<128, 0, 1>>, -1 >>}

\* C11: i24toi32 is sign-magnitude.  For every 3-byte input with 24-bit
\* value m the result is m when bit 23 is clear and minus the low 23 bits
\* of m when it is set; the six inputs of the unit tests give the values the
\* tests state; and the result lies in -8388607..8388607.
C11_SignMagnitude ==
    (Len(slice) = 3 /\ converted # None) =>
        /\ converted = Some(IF SignBit(slice) = 0 THEN Value24(slice)
                            ELSE -(Value24(slice) - 8388608))
        /\ \A t \in TestVectors : slice = t[1] => converted = Some(t[2])
        /\ converted[1] \in -8388607..8388607

\* A negative input with a magnitude has been converted.
C11_Witness ==
    /\ slice = <<135, 134, 158>>
    /\ converted = Some(-493214)

(***************************************************************************)
(* The pairing loop and the end of the acquisition loop.                   *)
(***************************************************************************)
\* C12: the pairing loop drains before it yields.  At the end of every
\* iteration of the acquisition loop every packet decoded so far has been
\* applied to the slots: none is left in the packet buffer.
C12_PairingDrains == thread = "top" => packet_buffer = <<>>

\* C13: whenever the acquisition loop has ended, for whatever reason, the
\* stop command has been written to the transport.
C13_StopWrittenOnExit ==
    (thread \in Ended /\ reads > 0) => Written(CmdStop)

(***************************************************************************)
(* The order of the handshake.                                             *)
(***************************************************************************)
\* What the transport saw of setup: the log without the thread's commands.
HandshakeLog ==
    SelectSeq(port_log, LAMBDA e : e.op = "read" \/ e.data \notin {CmdStart, CmdStop})
HandshakeWrites == <<CmdReset, CmdMode, channel_write>>

\* C14: the handshake is strictly ordered and synchronous.  The transport
\* sees a prefix of write(reset), read, write(mode), read, write(the
\* 16-channel settings: one buffer of 16 blocks of 9 bytes and a newline),
\* read; every write after the first follows a response that contains the
\* substring expected of it; no command is written twice.
C14_HandshakeOrder ==
    LET hs == HandshakeLog
    IN  /\ Len(hs) <= 6
        /\ \A i \in 1..Len(hs) :
              IF i % 2 = 1
                THEN /\ hs[i] = Write(HandshakeWrites[(i + 1) \div 2])
                     /\ i > 1 => Contains(hs[i - 1].data, Expected[(i - 1) \div 2])
                ELSE hs[i].op = "read"
        /\ \A i, j \in 1..Len(hs) :
              (i # j /\ hs[i].op = "write" /\ hs[j].op = "write") => hs[i] # hs[j]
        /\ Len(hs) >= 5 => /\ Len(hs[5].data) = 16 * 9 + 1
                            /\ hs[5].data[Len(hs[5].data)] = 10

\* The whole handshake has run and every response was accepted.
C14_Witness == setup_i = 3 /\ Len(HandshakeLog) = 6

(***************************************************************************)
(* The slots.                                                              *)
(***************************************************************************)
\* The pairing loop processes an odd packet while slot 0 is occupied: a step
\* of the thread (not the consumer's) from a state where the loop's next
\* packet is odd.
RepeatOdd ==
    /\ thread = "pair"
    /\ Len(packet_buffer) >= 2
    /\ packets[1] # None
    /\ Odd(packet_buffer[1])
    /\ received' = received

\* C15: the repeat-odd case.  A step that processes an odd packet while
\* slot 0 is occupied leaves slot 0 as it was and slot 1 empty, removes the
\* packet from the packet buffer without storing it, and emits no Reading.
C15_RepeatOddDropped ==
    [][RepeatOdd =>
          /\ packets'[1] = packets[1]
          /\ packets'[2] = None
          /\ packet_buffer' = Tail(packet_buffer)
          /\ packets'[1] # Some(packet_buffer[1])
          /\ emitted' = emitted
          /\ chan' = chan]_vars

\* Slot 0 holds an odd packet, and an odd packet decoded after it has
\* already been processed: a repeat-odd step has happened.
C15_Witness ==
    /\ packets[1] # None
    /\ packet_buffer # <<>>
    /\ \E j \in 1..Len(decoded) :
          /\ packets[1][1].id < j
          /\ j < packet_buffer[1].id
          /\ Odd(decoded[j])

\* The decoded packets (by their place in the order of decoding) that went
\* into the k-th Reading.
Parts(k) == {emitted[k].odd, emitted[k].even}

\* C16: a fill of both slots synthesizes one Reading and clears both slots
\* in the same step.  In every state slot 1 is empty, so the slots are never
\* both occupied between two packets; and no decoded packet is part of two
\* Readings.
C16_FillClearsSlots ==
    /\ packets[2] = None
    /\ \A i, j \in 1..Len(emitted) : i # j => Parts(i) \cap Parts(j) = {}
    /\ \A i \in 1..Len(emitted) : emitted[i].odd # emitted[i].even

\* Two fills have happened, and after the second a packet waits in slot 0.
C16_Witness == Len(emitted) = 2 /\ packets[1] # None

(***************************************************************************)
(* The scan and the purge.                                                 *)
(***************************************************************************)
\* The places of the buffer (1-based) a pass extracted a frame at: the
\* stream positions it extracted at, less what was purged before it.
Extracted ==
    IF decoded' = decoded THEN {}
    ELSE {extracted'[k] - drained + 1 : k \in 1..Len(extracted')}

\* C17: a scan pass extracts a frame at every marker byte whose 32 bytes
\* lie within the buffer, the frame that ends with the buffer's last byte
\* and markers inside an extracted frame included.
C17_EveryFittingMarkerExtracted ==
    [][ScanPass =>
          LET buf == Extend(buffer, temp_buffer')
          IN  Extracted = {i \in Markers(buf) : i + FrameLen - 1 <= Len(buf)}]_vars

LastOf(seq) == seq[Len(seq)]

\* C18: no position of the stream of accumulated bytes is the start of
\* two extracted frames.  A pass extracts at ascending positions, all after
\* the last position any earlier pass extracted at; after the pass the
\* buffer is cut at the end of the last extracted frame, so every position
\* a frame was extracted at has been purged; every marker byte still in the
\* buffer lies within the buffer's last 32 bytes, at a position no frame
\* was extracted at.
C18_NoPositionExtractedTwice ==
    [][ScanPass =>
          /\ decoded' # decoded =>
                /\ Len(extracted') = Len(decoded') - Len(decoded)
                /\ \A k \in 1..(Len(extracted') - 1) : extracted'[k] < extracted'[k + 1]
                /\ extracted # <<>> => LastOf(extracted) < extracted'[1]
          /\ extracted' # <<>> => drained' = LastOf(extracted') + FrameLen
          /\ \A i \in Markers(buffer') :
                /\ i > Len(buffer') - FrameLen
                /\ extracted' # <<>> => LastOf(extracted') < drained' + i - 1]_vars

\* After several passes frames have been extracted and purged, the last
\* pass among them, and a marker byte waits in the buffer.
C18_Witness ==
    /\ thread = "pair"
    /\ reads >= 2
    /\ Len(decoded) > Len(extracted)
    /\ drained = LastOf(extracted) + FrameLen
    /\ Len(buffer) < ChunkLen
    /\ Markers(buffer) # {}

(***************************************************************************)
(* The stop signal.                                                        *)
(***************************************************************************)
Running == thread \in {"spawned", "top", "pair"}

\* C19: while the acquisition thread runs, shutdown is false.  The flag is
\* set only when the value is dropped: by the caller who never started, or
\* by the thread's end.  So the stop branch is never taken: the loop never
\* exits by its break and the stop command is never written; it ends only
\* by a failed read or write or a failed send.
C19_StopSignalNeverSeen ==
    /\ Running => ~shutdown
    /\ shutdown => (thread \in Ended \/ caller \in {"released", "panicked"})
    /\ thread # "exited"
    /\ ~Written(CmdStop)
    /\ thread \in Ended => thread \in {"write_failed", "read_failed", "send_failed"}

\* The loop is in its second iteration or later and has emitted a Reading.
C19_Witness == thread = "pair" /\ reads >= 2 /\ emitted # <<>>

(***************************************************************************)
(* The packet held back.                                                   *)
(***************************************************************************)
\* C20: at the end of every iteration the packet buffer holds exactly one
\* packet if a packet has ever been decoded, and none otherwise.  The packet
\* decoded last is still in the packet buffer, not applied to the slots, so
\* once a packet has been decoded the Readings emitted number at most
\* (packets decoded - 1) / 2, rounded down.
C20_LastPacketHeldBack ==
    /\ thread = "top" => Len(packet_buffer) = (IF decoded = <<>> THEN 0 ELSE 1)
    /\ decoded # <<>> =>
          /\ packet_buffer # <<>>
          /\ packet_buffer[Len(packet_buffer)] = decoded[Len(decoded)]
          /\ \A k \in 1..Len(emitted) :
                emitted[k].odd < Len(decoded) /\ emitted[k].even < Len(decoded)
          /\ \A s \in 1..2 : packets[s] # None => packets[s][1].id < Len(decoded)
          /\ Len(emitted) <= (Len(decoded) - 1) \div 2
    /\ decoded = <<>> => emitted = <<>>

\* An iteration has ended with three packets decoded, one Reading emitted
\* and the third packet waiting in the packet buffer.
C20_Witness ==
    /\ thread = "top"
    /\ Len(decoded) = 3
    /\ Len(emitted) = 1
    /\ Len(packet_buffer) = 1

====
